---- MODULE Spec2Model ----
(***************************************************************************)
(* Batch job coordinator of docflow (sdks/python/docflow/batch_processor). *)
(*                                                                         *)
(* One BatchProcessor: its job table, the BatchJob objects, the background *)
(* task of every job (_process_queue_job), the work items of the task's    *)
(* ThreadPoolExecutor, and the callers of the public API.                  *)
(***************************************************************************)
EXTENDS Integers, Sequences, FiniteSets, TLC

\* ---------------------------------------------------------------- bounds
MaxJobs == 1
MaxFiles == 3
MaxWorkers == 2

\* ---------------------------------------------------------------- values
\* JobStatus (types.py)
PENDING == "pending"
PROCESSING == "processing"
COMPLETED == "completed"
FAILED == "failed"
JobStatus == {PENDING, PROCESSING, COMPLETED, FAILED}

\* A file input is a path (a str or Path) or raw bytes ("bytes": a bytes
\* object or a (bytes, filename) tuple).
PathNames == <<"f0.pdf", "f1.pdf", "f2.pdf", "f3.pdf", "f4.pdf">>

\* The uuid4 strings enqueue may draw; 0 is an id no job ever has.
JobIds == 1..MaxJobs
AnyId == 0..MaxJobs

\* The batches of at most n files: k different paths, or k raw inputs.
FileLists(n) ==
  {[i \in 1..k |-> PathNames[i]] : k \in 0..n} \cup {[i \in 1..k |-> "bytes"] : k \in 0..n}

\* The empty dict.
EmptyMap == [k \in {} |-> ""]

\* d[k] = v on a dict.
Put(d, k, v) == [x \in (DOMAIN d) \cup {k} |-> IF x = k THEN v ELSE d[x]]

\* The RAGDocument _process_single returns for the input at position i.
Doc(i, f) == [pos |-> i, source_file |-> f]

\* str(e) of the exception a failing Processing Function raises, and of
\* asyncio.TimeoutError.
ErrorMsg == "processing failed"
TimeoutMsg == ""

VARIABLES
  failFast,    \* batch_config.fail_fast
  maxWorkers,  \* batch_config.max_workers
  jobs,        \* keys of self._jobs (each key maps to the object obj[key])
  obj,         \* the BatchJob objects ever created, by job id
  files,       \* the files argument of each job's background task
  task,        \* each background task: pc, index of the awaited future, pending exception
  item,        \* per job, the state of each file's work item / future
  timedout,    \* per job, the futures wait_for cancelled on timeout
  held,        \* the BatchJob the last successful get_status returned (0: none)
  gr,          \* a get_result(wait=True) call between two polls
  ret,         \* what the last API call returned or raised
  lock,        \* who holds self._job_lock ("free": nobody)
  markdown,    \* the text a RAGChunker.chunk call was given
  ragConfig,   \* the chunker's config: chunk_size, chunk_overlap, respect_headings, add_chunk_markers
  chunks,      \* the chunks list of the running chunk call
  cpc          \* the position of the chunk call

vars == <<failFast, maxWorkers, jobs, obj, files, task, item, timedout, held, gr, ret, lock,
          markdown, ragConfig, chunks, cpc>>

config == <<failFast, maxWorkers>>
caller == <<held, gr, ret>>
batch == <<failFast, maxWorkers, jobs, obj, files, task, item, timedout, held, gr, ret, lock>>
chunker == <<markdown, ragConfig, chunks, cpc>>

\* RAGConfig(): chunk_size = 1000, chunk_overlap = 200, respect_headings = True,
\* add_chunk_markers = True
DefaultConfig ==
  [chunk_size |-> 1000, chunk_overlap |-> 200,
   respect_headings |-> TRUE, add_chunk_markers |-> TRUE]

\* No chunk call is under way.
NoChunking ==
  /\ markdown = ""
  /\ ragConfig = DefaultConfig
  /\ chunks = <<>>
  /\ cpc = "idle"

\* ---------------------------------------------------------------- helpers
R(op, val) == [op |-> op, val |-> val, n |-> 0, errs |-> EmptyMap]

NoCall == R("none", "none")

\* (mutant) the job is created without its total_files.
NewJobNoTotal(id, fs) ==
  [job_id |-> id, status |-> PENDING, total_files |-> 0,
   processed_files |-> 0, failed_files |-> 0, results |-> <<>>,
   errors |-> EmptyMap, completed_at |-> FALSE]

\* BatchJob(job_id=..., status=PENDING, total_files=len(files))
NewJob(id, fs) ==
  [job_id |-> id, status |-> PENDING, total_files |-> Len(fs),
   processed_files |-> 0, failed_files |-> 0, results |-> <<>>,
   errors |-> EmptyMap, completed_at |-> FALSE]

\* filename = str(file_input) if isinstance(file_input, (str, Path)) else "unknown"
FileKey(f) == IF f = "bytes" THEN "unknown" ELSE f

Running(j) == {i \in 1..Len(item[j]) : item[j][i] = "running"}
Queued(j) == {i \in 1..Len(item[j]) : item[j][i] = "queued"}

Min(S) == CHOOSE x \in S : \A y \in S : x <= y

\* No get_status call has returned a job yet.
NotHeld == [kind |-> "none", id |-> 0, val |-> NewJob(0, <<>>)]

\* No get_result(wait=True) call is sleeping.
Idle == [state |-> "idle", id |-> 0]

Init ==
  /\ failFast \in BOOLEAN
  /\ maxWorkers \in 0..MaxWorkers
  /\ jobs = {}
  /\ obj = <<>>
  /\ files = <<>>
  /\ task = <<>>
  /\ item = <<>>
  /\ timedout = <<>>
  /\ held = NotHeld
  /\ gr = Idle
  /\ ret = NoCall
  /\ lock = "free"
  /\ NoChunking

\* ---------------------------------------------------------------- enqueue
\* enqueue(files): a fresh job in the table and a scheduled background task.
Enqueue(fs) ==
  LET id == Len(obj) + 1 IN
  /\ lock = "free"
  /\ id \in JobIds
  /\ obj' = Append(obj, NewJob(id, fs))
  /\ jobs' = jobs \cup {id}
  /\ files' = Append(files, fs)
  /\ task' = Append(task, [pc |-> "scheduled", idx |-> 1, exc |-> "none"])
  /\ item' = Append(item, <<>>)
  /\ timedout' = Append(timedout, {})
  /\ ret' = [R("enqueue", "job_id") EXCEPT !.n = id]
  /\ UNCHANGED <<config, chunker, lock, held, gr>>

\* ---------------------------------------------------------------- _process_queue_job
\* (mutant) the result is put in front of the list.
RecordResultFront(job, d) ==
  [job EXCEPT !.results = <<d>> \o @, !.processed_files = @ + 1]

\* job.results.append(result); job.processed_files += 1
RecordResult(job, d) ==
  [job EXCEPT !.results = Append(@, d), !.processed_files = @ + 1]

\* (mutant) a failed file is counted as processed too.
RecordErrorBoth(job, key, msg) ==
  [job EXCEPT !.errors = Put(@, key, msg), !.failed_files = @ + 1,
              !.processed_files = @ + 1]

\* job.errors[filename] = str(e); job.failed_files += 1
RecordError(job, key, msg) ==
  [job EXCEPT !.errors = Put(@, key, msg), !.failed_files = @ + 1]

\* (mutant) the completion stamps completed_at but forgets the status.
CompleteNoStatus(job) == [job EXCEPT !.completed_at = TRUE]

\* (mutant) a batch without a single success ends FAILED.
CompleteIfAnySucceeded(job) ==
  [job EXCEPT !.status = IF job.processed_files = 0 THEN FAILED ELSE COMPLETED,
              !.completed_at = TRUE]

\* job.status = COMPLETED; job.completed_at = now
Complete(job) == [job EXCEPT !.status = COMPLETED, !.completed_at = TRUE]

\* job.status = FAILED; job.errors["fatal"] = str(e); job.completed_at = now
Fatal(job, msg) ==
  [job EXCEPT !.status = FAILED, !.errors = Put(@, "fatal", msg), !.completed_at = TRUE]

\* The task starts: job = self._jobs[job_id] (KeyError ends the task when the
\* job was cleared meanwhile), job.status = PROCESSING.
JobStart(j) ==
  /\ lock = "free"
  /\ j \in DOMAIN task
  /\ task[j].pc = "scheduled"
  /\ IF j \in jobs
       THEN /\ obj' = [obj EXCEPT ![j].status = PROCESSING]
            /\ task' = [task EXCEPT ![j].pc = "submit"]
       ELSE /\ task' = [task EXCEPT ![j].pc = "done"]
            /\ UNCHANGED obj
  /\ UNCHANGED <<config, chunker, lock, jobs, files, item, timedout, caller>>

\* ThreadPoolExecutor(max_workers) (ValueError when max_workers <= 0, caught by
\* the outer except) and one run_in_executor per file.
JobSubmit(j) ==
  /\ j \in DOMAIN task
  /\ task[j].pc = "submit"
  /\ IF maxWorkers <= 0
       THEN /\ obj' = [obj EXCEPT ![j] = Fatal(@, "max_workers must be greater than 0")]
            /\ task' = [task EXCEPT ![j].pc = "done"]
            /\ UNCHANGED item
       ELSE /\ item' = [item EXCEPT ![j] = [i \in 1..Len(files[j]) |-> "queued"]]
            /\ task' = [task EXCEPT ![j].pc = "await"]
            /\ UNCHANGED obj
  /\ UNCHANGED <<config, chunker, lock, jobs, files, timedout, caller>>

\* (mutant) a work item starts whether or not a pool thread is free.
WorkerStartUnbounded(j) ==
  /\ j \in DOMAIN task
  /\ task[j].pc \in {"await", "raised"}
  /\ Queued(j) # {}
  /\ item' = [item EXCEPT ![j][Min(Queued(j))] = "running"]
  /\ UNCHANGED <<config, chunker, lock, jobs, obj, files, task, timedout, caller>>

\* A pool thread takes the oldest work item that was not cancelled.
WorkerStart(j) ==
  /\ j \in DOMAIN task
  /\ task[j].pc \in {"await", "raised"}
  /\ Queued(j) # {}
  /\ Cardinality(Running(j)) < maxWorkers
  /\ item' = [item EXCEPT ![j][Min(Queued(j))] = "running"]
  /\ UNCHANGED <<config, chunker, lock, jobs, obj, files, task, timedout, caller>>

\* _process_single returns (out = "ok") or raises (out = "err").
WorkerFinish(j, i, out) ==
  /\ j \in DOMAIN task
  /\ i \in Running(j)
  /\ item' = [item EXCEPT ![j][i] = out]
  /\ UNCHANGED <<config, chunker, lock, jobs, obj, files, task, timedout, caller>>

\* (mutant) every per-file failure is raised, whatever fail_fast says.
AfterFailureRaise(t, msg) == [t EXCEPT !.pc = "raised", !.exc = msg]

\* After a per-file failure: raise under fail_fast, else the next future.
AfterFailure(t, msg) ==
  IF failFast THEN [t EXCEPT !.pc = "raised", !.exc = msg]
              ELSE [t EXCEPT !.idx = @ + 1]

\* await wait_for(future) returns the result.
AwaitResult(j) ==
  /\ lock = "free"
  /\ j \in DOMAIN task
  /\ task[j].pc = "await"
  /\ task[j].idx <= Len(files[j])
  /\ item[j][task[j].idx] = "ok"
  /\ obj' = [obj EXCEPT ![j] = RecordResult(@, Doc(task[j].idx, files[j][task[j].idx]))]
  /\ task' = [task EXCEPT ![j].idx = @ + 1]
  /\ UNCHANGED <<config, chunker, lock, jobs, files, item, timedout, caller>>

\* await wait_for(future) raises the Processing Function's exception.
AwaitError(j) ==
  /\ lock = "free"
  /\ j \in DOMAIN task
  /\ task[j].pc = "await"
  /\ task[j].idx <= Len(files[j])
  /\ item[j][task[j].idx] = "err"
  /\ obj' = [obj EXCEPT ![j] = RecordError(@, FileKey(files[j][task[j].idx]), ErrorMsg)]
  /\ task' = [task EXCEPT ![j] = AfterFailure(@, ErrorMsg)]
  /\ UNCHANGED <<config, chunker, lock, jobs, files, item, timedout, caller>>

\* wait_for times out: it cancels the future, which cancels a work item no
\* thread has taken yet and leaves a running one running.
AwaitTimeout(j) ==
  /\ lock = "free"
  /\ j \in DOMAIN task
  /\ task[j].pc = "await"
  /\ task[j].idx <= Len(files[j])
  /\ item[j][task[j].idx] \in {"queued", "running"}
  /\ item' = [item EXCEPT ![j][task[j].idx] = IF @ = "queued" THEN "cancelled" ELSE @]
  /\ timedout' = [timedout EXCEPT ![j] = @ \cup {task[j].idx}]
  /\ obj' = [obj EXCEPT ![j] = RecordError(@, FileKey(files[j][task[j].idx]), TimeoutMsg)]
  /\ task' = [task EXCEPT ![j] = AfterFailure(@, TimeoutMsg)]
  /\ UNCHANGED <<config, chunker, lock, jobs, files, caller>>

\* Every future was awaited; the executor's __exit__ (shutdown(wait=True))
\* returns once no thread is running; then COMPLETED.
JobComplete(j) ==
  /\ lock = "free"
  /\ j \in DOMAIN task
  /\ task[j].pc = "await"
  /\ task[j].idx > Len(files[j])
  /\ Running(j) = {}
  /\ obj' = [obj EXCEPT ![j] = Complete(@)]
  /\ task' = [task EXCEPT ![j].pc = "done"]
  /\ UNCHANGED <<config, chunker, lock, jobs, files, item, timedout, caller>>

\* The fail_fast raise leaves the with block: shutdown(wait=True) lets the
\* threads drain the queue, then the outer except records the failure.
JobFatal(j) ==
  /\ lock = "free"
  /\ j \in DOMAIN task
  /\ task[j].pc = "raised"
  /\ Running(j) = {}
  /\ Queued(j) = {}
  /\ obj' = [obj EXCEPT ![j] = Fatal(@, task[j].exc)]
  /\ task' = [task EXCEPT ![j].pc = "done"]
  /\ UNCHANGED <<config, chunker, lock, jobs, files, item, timedout, caller>>

\* ---------------------------------------------------------------- get_status
\* (mutant) a job deleted from the table is still found.
FoundEver(id) == id \in DOMAIN obj

\* self._jobs.get(job_id) finds a job.
Found(id) == id \in jobs

\* (mutant) the caller gets a copy of the BatchJob.
ReturnJobCopy(id) == [kind |-> "copy", id |-> id, val |-> obj[id]]

\* return job: the caller gets the BatchJob object of the table itself.
ReturnJob(id) == [kind |-> "ref", id |-> id, val |-> NewJob(id, <<>>)]

\* What a caller reads in a BatchJob that get_status returned.
Deref(h) == IF h.kind = "ref" THEN obj[h.id] ELSE h.val

GetStatus(id) ==
  /\ lock = "free"
  /\ IF Found(id)
       THEN /\ held' = ReturnJob(id)
            /\ ret' = R("get_status", "job")
       ELSE /\ ret' = R("get_status", "NotFound")
            /\ UNCHANGED held
  /\ UNCHANGED <<config, chunker, lock, jobs, obj, files, task, item, timedout, gr>>

\* ---------------------------------------------------------------- get_result
\* (mutant) the loop has no test for FAILED.
PollOutcomeNoFailed(id) ==
  IF id \notin jobs THEN "NotFound"
  ELSE IF obj[id].status = COMPLETED THEN "results"
  ELSE "sleep"

\* One pass of the while loop of get_result(wait=True): what get_status and
\* the two status tests decide.
PollOutcome(id) ==
  IF ~Found(id) THEN "NotFound"
  ELSE IF obj[id].status = COMPLETED THEN "results"
  ELSE IF obj[id].status = FAILED THEN "JobFailed"
  ELSE "sleep"

\* The value or exception of a get_result call that ends with outcome o.
ResultOf(id, o) ==
  IF o = "JobFailed" THEN [R("get_result", o) EXCEPT !.n = id, !.errs = obj[id].errors]
                     ELSE [R("get_result", o) EXCEPT !.n = id]

\* get_result(job_id, wait) up to its return, its raise or its first sleep.
\* (mutant) get_result keeps the lock while it sleeps between two polls.
AfterPollHeld(o) == IF o = "sleep" THEN "get_result" ELSE "free"

\* The lock when a pass of get_result has looked at the job: get_status left
\* its with block (lines 227-231) before the status is tested and before
\* asyncio.sleep.
AfterPoll(o) == "free"

GetResult(id, wait) ==
  /\ gr.state = "idle"
  /\ lock = "free"
  /\ LET o == IF wait THEN PollOutcome(id)
              ELSE IF Found(id) THEN "results" ELSE "NotFound" IN
       /\ lock' = AfterPoll(o)
       /\ IF o = "sleep"
            THEN /\ gr' = [state |-> "polling", id |-> id]
                 /\ UNCHANGED ret
            ELSE /\ ret' = ResultOf(id, o)
                 /\ UNCHANGED gr
  /\ UNCHANGED <<config, chunker, jobs, obj, files, task, item, timedout, held>>

\* asyncio.sleep(0.5) is over: the next pass of the loop.
Poll ==
  /\ gr.state = "polling"
  /\ lock = "free"
  /\ LET o == PollOutcome(gr.id) IN
       /\ lock' = AfterPoll(o)
       /\ IF o = "sleep"
            THEN UNCHANGED <<gr, ret>>
            ELSE /\ ret' = ResultOf(gr.id, o)
                 /\ gr' = Idle
  /\ UNCHANGED <<config, chunker, jobs, obj, files, task, item, timedout, held>>

\* ---------------------------------------------------------------- cancel
\* (mutant) only a COMPLETED job is refused.
CancellableUnlessCompleted(job) == job.status # COMPLETED

\* job.status in [PENDING, PROCESSING]
Cancellable(job) == job.status \in {PENDING, PROCESSING}

\* job.status = FAILED; job.errors["cancelled"] = "Job cancelled by user"
CancelJob(job) ==
  [job EXCEPT !.status = FAILED, !.errors = Put(@, "cancelled", "Job cancelled by user")]

Cancel(id) ==
  /\ lock = "free"
  /\ IF Found(id) /\ Cancellable(obj[id])
       THEN /\ obj' = [obj EXCEPT ![id] = CancelJob(@)]
            /\ ret' = R("cancel", "true")
       ELSE /\ ret' = R("cancel", "false")
            /\ UNCHANGED obj
  /\ UNCHANGED <<config, chunker, lock, jobs, files, task, item, timedout, held, gr>>

\* ---------------------------------------------------------------- clear_completed
\* (mutant) clear_completed deletes every job of the table.
ClearableAll == jobs

\* The jobs clear_completed deletes.
Clearable == {j \in jobs : obj[j].status \in {COMPLETED, FAILED}}

ClearCompleted ==
  /\ lock = "free"
  /\ jobs' = jobs \ Clearable
  /\ ret' = [R("clear_completed", "count") EXCEPT !.n = Cardinality(Clearable)]
  /\ UNCHANGED <<config, chunker, lock, obj, files, task, item, timedout, held, gr>>

\* ---------------------------------------------------------------- specification
JobStep(j) ==
  \/ JobStart(j)
  \/ JobSubmit(j)
  \/ AwaitResult(j)
  \/ AwaitError(j)
  \/ AwaitTimeout(j)
  \/ JobComplete(j)
  \/ JobFatal(j)

Next ==
  \/ \E fs \in FileLists(MaxFiles) : Enqueue(fs)
  \/ \E j \in JobIds : JobStep(j)
  \/ \E j \in JobIds : WorkerStart(j)
  \/ \E j \in JobIds, i \in 1..MaxFiles, out \in {"ok", "err"} : WorkerFinish(j, i, out)
  \/ \E id \in AnyId : GetStatus(id)
  \/ \E id \in AnyId, wait \in BOOLEAN : GetResult(id, wait)
  \/ Poll
  \/ \E id \in AnyId : Cancel(id)
  \/ ClearCompleted

Spec == Init /\ [][Next]_vars

\* ---------------------------------------------------------------- derived state
Terminal(job) == job.status \in {COMPLETED, FAILED}

Cancelled(job) == "cancelled" \in DOMAIN job.errors

\* The files whose result the task has recorded: awaited, not timed out,
\* returned by the Processing Function.
Recorded(j) ==
  {i \in 1..Len(item[j]) : i < task[j].idx /\ item[j][i] = "ok" /\ i \notin timedout[j]}

\* The outcome of every file of job j, by input position.
AllDocs(j) == [i \in 1..Len(files[j]) |-> Doc(i, files[j][i])]

InRecorded(j, d) == d.pos \in Recorded(j)

\* The outcomes of the recorded files, in input order.
RecordedDocs(j) == SelectSeq(AllDocs(j), LAMBDA d : InRecorded(j, d))

\* The task of job j ran to its end with every file awaited or a fatal
\* exception (not: died on the KeyError of a cleared job).
Finished(j) == task[j].pc = "done" /\ obj[j].completed_at

C2_TerminalAbsorbing ==
  [][\A j \in DOMAIN obj :
       \/ obj'[j].status = obj[j].status
       \/ <<obj[j].status, obj'[j].status>> \in
            {<<PENDING, PROCESSING>>, <<PROCESSING, COMPLETED>>,
             <<PROCESSING, FAILED>>, <<PENDING, FAILED>>}]_vars

\* ---------------------------------------------------------------- C3
\* C3: once cancel has returned true for a job, its results, counters and
\* errors stay as they were.
C3_DiscardAfterCancel ==
  [][\A j \in DOMAIN obj :
       Cancelled(obj[j]) =>
         /\ obj'[j].results = obj[j].results
         /\ obj'[j].processed_files = obj[j].processed_files
         /\ obj'[j].failed_files = obj[j].failed_files
         /\ obj'[j].errors = obj[j].errors]_vars

\* ---------------------------------------------------------------- C4
\* C4: cancel returns true exactly when the job is in the table and Pending or
\* Processing; then the job becomes Failed with a "cancelled" error and nothing
\* else changes; otherwise it returns false and changes no job and no table entry.
C4_CancelContract ==
  [][\A id \in AnyId :
       Cancel(id) =>
         LET can == id \in jobs /\ obj[id].status \in {PENDING, PROCESSING} IN
         /\ ret'.op = "cancel"
         /\ ret'.val = (IF can THEN "true" ELSE "false")
         /\ jobs' = jobs
         /\ can => /\ obj'[id].status = FAILED
                   /\ "cancelled" \in DOMAIN obj'[id].errors
                   /\ \A k \in DOMAIN obj : k # id => obj'[k] = obj[k]
         /\ ~can => obj' = obj]_vars

\* cancel of a job that is Processing has returned true, and cancel of an
\* unknown or terminal job would return false.
C4_Witness ==
  /\ ret = R("cancel", "true")
  /\ \E j \in jobs : obj[j].status = FAILED /\ task[j].pc = "await"

\* ---------------------------------------------------------------- C5
\* C5: under failFast, once a per-file failure is recorded, no file whose
\* Processing Function call has not started is started.
C5_FailFastAborts ==
  [][\A j \in DOMAIN obj : \A i \in 1..Len(item[j]) :
       (failFast /\ obj[j].failed_files > 0 /\ item[j][i] = "queued")
         => item'[j][i] # "running"]_vars

C7_FailedWhenNoneSucceeded ==
  \A j \in DOMAIN obj :
    (~failFast /\ ~Cancelled(obj[j]) /\ Finished(j) /\ Len(files[j]) > 0) =>
      (obj[j].status = FAILED <=> Recorded(j) = {})

\* C7 as amended: with failFast off and no cancel, a finished batch is Failed
\* exactly when a fatal exception occurred (the pool could not be created),
\* and Completed otherwise, also when no file succeeded.
C7_FailedOnlyOnFatal ==
  \A j \in DOMAIN obj :
    (~failFast /\ ~Cancelled(obj[j]) /\ Finished(j)) =>
      /\ obj[j].status = (IF maxWorkers <= 0 THEN FAILED ELSE COMPLETED)
      /\ "fatal" \in DOMAIN obj[j].errors <=> maxWorkers <= 0

\* Every file of a non-empty batch failed or timed out, and the job is Completed.
C7_Witness ==
  \E j \in DOMAIN obj :
    /\ ~failFast /\ ~Cancelled(obj[j]) /\ Finished(j)
    /\ Len(files[j]) > 0
    /\ Recorded(j) = {}
    /\ obj[j].failed_files = Len(files[j])
    /\ obj[j].status = COMPLETED

\* ---------------------------------------------------------------- fairness
\* The event loop runs every ready step of a task and ends every wait_for
\* (by its result or by its timeout); it wakes a sleeping get_result; a free
\* pool thread takes the next work item; a Processing Function call returns
\* or raises.
FairSpec ==
  /\ Spec
  /\ WF_vars(Poll)
  /\ \A j \in JobIds : WF_vars(JobStep(j))
  /\ \A j \in JobIds : WF_vars(WorkerStart(j))
  /\ \A j \in JobIds : WF_vars(\E i \in 1..MaxFiles, out \in {"ok", "err"} : WorkerFinish(j, i, out))

\* ---------------------------------------------------------------- C8
\* What one pass of get_result(wait=True) over job id must do, by the status
\* it finds.
WaitPass(id) ==
  LET st == IF id \in jobs THEN obj[id].status ELSE "unknown" IN
  /\ st = COMPLETED =>
       /\ ret' = [R("get_result", "results") EXCEPT !.n = id]
       /\ gr' = Idle
  /\ st = FAILED =>
       /\ ret'.op = "get_result" /\ ret'.val = "JobFailed"
       /\ ret'.errs = obj[id].errors
       /\ gr' = Idle
  /\ st \in {PENDING, PROCESSING} =>
       /\ gr' = [state |-> "polling", id |-> id]
       /\ ret' = ret

C10_NotFound ==
  [][/\ \A id \in AnyId \ jobs :
          /\ GetStatus(id) => (ret' = R("get_status", "NotFound") /\ held' = held)
          /\ \A wait \in BOOLEAN :
               GetResult(id, wait) =>
                 (ret'.op = "get_result" /\ ret'.val = "NotFound" /\ gr' = Idle)
     /\ (Poll /\ gr.id \notin jobs) =>
          (ret'.op = "get_result" /\ ret'.val = "NotFound" /\ gr' = Idle)
     /\ (Poll \/ \E id \in AnyId : GetStatus(id) \/ \E wait \in BOOLEAN : GetResult(id, wait))
          => (jobs' = jobs /\ obj' = obj)]_vars

\* get_status of the id of a job that was cleared from the table has raised
\* not-found.
C10_Witness ==
  /\ ret = R("get_status", "NotFound")
  /\ Len(obj) > 0
  /\ jobs = {}

FileErrors(job) == (DOMAIN job.errors) \ {"cancelled", "fatal"}

\* C12: the per-file entries of errors are as many as failed_files, so no two
\* failed inputs share one entry.
C12_ErrorsEnumerate ==
  \A j \in DOMAIN obj : Cardinality(FileErrors(obj[j])) = obj[j].failed_files

\* ---------------------------------------------------------------- C13
\* C13: at no time are more than max_workers Processing Function calls of one
\* job running.
C13_PoolBound ==
  \A j \in DOMAIN item : Cardinality(Running(j)) <= maxWorkers

\* Both threads of a pool of two are busy while a third file waits.
C13_Witness ==
  \E j \in DOMAIN item :
    /\ maxWorkers = 2
    /\ Cardinality(Running(j)) = 2
    /\ Queued(j) # {}

\* ---------------------------------------------------------------- C14
\* The event loop runs every ready step of a task and ends every wait_for,
\* and a free pool thread takes the next work item; nothing is assumed about
\* a Processing Function call returning.
LoopFairSpec ==
  /\ Spec
  /\ \A j \in JobIds : WF_vars(JobStep(j))
  /\ \A j \in JobIds : WF_vars(WorkerStart(j))

\* C14: every submitted job eventually is COMPLETED or FAILED, even when a
\* Processing Function call never returns.
C14_EventuallyTerminal ==
  \A j \in JobIds :
    (j \in DOMAIN obj) ~> (j \in DOMAIN obj /\ Terminal(obj[j]))

\* ---------------------------------------------------------------- C15
\* C15: completed_at is unset while the job is PENDING or PROCESSING, and a
\* step that sets it leaves the job COMPLETED or FAILED.
C15_CompletedAtTerminal ==
  /\ [](\A j \in DOMAIN obj :
          obj[j].status \in {PENDING, PROCESSING} => ~obj[j].completed_at)
  /\ [][\A j \in DOMAIN obj :
          (~obj[j].completed_at /\ obj'[j].completed_at) => Terminal(obj'[j])]_vars

\* A job cancelled while it ran, later stamped by the end of its task.
C15_Witness ==
  \E j \in DOMAIN obj :
    /\ obj[j].completed_at
    /\ Cancelled(obj[j])
    /\ obj[j].status = COMPLETED

\* ---------------------------------------------------------------- C16
\* C16: only clear_completed removes a job from the table, and get_status of
\* a job in the table returns it; clear_completed removes exactly the
\* COMPLETED and FAILED jobs, returns their number and changes no job.
C16_ClearContract ==
  /\ [][(jobs \ jobs' # {}) => ClearCompleted]_vars
  /\ [][\A id \in JobIds : (id \in jobs /\ GetStatus(id)) => ret'.val = "job"]_vars
  /\ [][ClearCompleted =>
          /\ jobs' = {j \in jobs : ~Terminal(obj[j])}
          /\ ret'.op = "clear_completed"
          /\ ret'.n = Cardinality({j \in jobs : Terminal(obj[j])})
          /\ obj' = obj]_vars

\* clear_completed has removed the one finished job of the table.
C16_Witness ==
  /\ ret.op = "clear_completed"
  /\ ret.n = 1
  /\ jobs = {}

\* ================================================================ rag/chunker.py
\* Texts are strings; positions are Python's (0-based) unless said otherwise.

\* ---------------------------------------------------------------- str
Max(S) == CHOOSE x \in S : \A y \in S : x >= y

\* s[i-1:i], the i-th character (1-based)
Ch(s, i) == SubSeq(s, i, i)

\* s[a:b] for 0 <= a
Slice(s, a, b) == SubSeq(s, a + 1, IF b > Len(s) THEN Len(s) ELSE b)

\* s[a:]
From(s, a) == SubSeq(s, a + 1, Len(s))

\* s[-n:] for n > 0
Last(s, n) == From(s, IF Len(s) > n THEN Len(s) - n ELSE 0)

\* str.isspace of one character, what \s matches
IsSpace(c) == c \in {" ", "\n", "\t"}

RECURSIVE LStrip(_)
LStrip(s) == IF Len(s) > 0 /\ IsSpace(Ch(s, 1)) THEN LStrip(From(s, 1)) ELSE s

RECURSIVE RStrip(_)
RStrip(s) ==
  IF Len(s) > 0 /\ IsSpace(Ch(s, Len(s))) THEN RStrip(Slice(s, 0, Len(s) - 1)) ELSE s

\* s.strip()
Strip(s) == RStrip(LStrip(s))

\* s.lstrip("#")
RECURSIVE LStripHash(_)
LStripHash(s) == IF Len(s) > 0 /\ Ch(s, 1) = "#" THEN LStripHash(From(s, 1)) ELSE s

\* s.startswith(p), s.endswith(p)
StartsWith(s, p) == Len(s) >= Len(p) /\ Slice(s, 0, Len(p)) = p
EndsWith(s, p) == Len(s) >= Len(p) /\ From(s, Len(s) - Len(p)) = p

\* s.find(p, from): the lowest index of p at or after from, or -1
Find(s, p, from) ==
  LET hits == {k \in from..(Len(s) - Len(p)) : Slice(s, k, k + Len(p)) = p}
  IN IF hits = {} THEN -1 ELSE Min(hits)

\* p in s
Contains(s, p) == Find(s, p, 0) # -1

\* s.split("\n")
RECURSIVE Split(_)
Split(s) ==
  LET k == Find(s, "\n", 0)
  IN IF k = -1 THEN <<s>> ELSE <<Slice(s, 0, k)>> \o Split(From(s, k + 1))

\* "\n".join(ls)
RECURSIVE Join(_)
Join(ls) ==
  IF Len(ls) = 0 THEN ""
  ELSE IF Len(ls) = 1 THEN ls[1]
  ELSE ls[1] \o "\n" \o Join(Tail(ls))

\* str(i) of a natural number
RECURSIVE Str(_)
Str(i) ==
  IF i < 10 THEN Ch("0123456789", i + 1)
  ELSE Str(i \div 10) \o Ch("0123456789", (i % 10) + 1)

\* ---------------------------------------------------------------- _extract_frontmatter
ExtractFrontmatter(md) ==
  LET end == Find(md, "---", 3)
  IN IF StartsWith(md, "---") /\ end > 0
       THEN [content |-> Strip(From(md, end + 3)), frontmatter |-> Strip(Slice(md, 3, end))]
       ELSE [content |-> md, frontmatter |-> ""]

\* ---------------------------------------------------------------- _split_by_headings
\* ^ of a MULTILINE pattern matches at p
LineStart(s, p) == p = 0 \/ Ch(s, p) = "\n"

\* the end of the line position p is in: where $ matches, where .+ stops
LineEnd(s, p) == LET k == Find(s, "\n", p) IN IF k = -1 THEN Len(s) ELSE k

RECURSIVE HashRun(_, _)
HashRun(s, p) == IF p < Len(s) /\ Ch(s, p + 1) = "#" THEN 1 + HashRun(s, p + 1) ELSE 0

RECURSIVE SpaceRun(_, _)
SpaceRun(s, p) == IF p < Len(s) /\ IsSpace(Ch(s, p + 1)) THEN 1 + SpaceRun(s, p + 1) ELSE 0

NoMatch == [ok |-> FALSE, start |-> 0, end |-> 0, title |-> ""]

\* The match of ^(#{1,6})\s+(.+)$ that starts at p, if any. \s+ takes the
\* whole whitespace run after the hashes, newlines included, and gives
\* characters back only when nothing is left for (.+); title is group 2.
HeadingAt(s, p) ==
  LET h == HashRun(s, p)
      q == p + h
      w == SpaceRun(s, q)
      r == q + w
      back == {k \in 1..(w - 1) : Ch(s, q + k + 1) # "\n"}
      g == IF r < Len(s) THEN r ELSE q + Max(back)
  IN IF ~(LineStart(s, p) /\ h \in 1..6 /\ w >= 1) THEN NoMatch
     ELSE IF r >= Len(s) /\ back = {} THEN NoMatch
     ELSE [ok |-> TRUE, start |-> p, end |-> LineEnd(s, g),
           title |-> Slice(s, g, LineEnd(s, g))]

\* heading_pattern.finditer(content), searching on from pos
RECURSIVE HeadingMatches(_, _)
HeadingMatches(s, pos) ==
  LET starts == {p \in pos..(Len(s) - 1) : HeadingAt(s, p).ok}
  IN IF starts = {} THEN <<>>
     ELSE LET m == HeadingAt(s, Min(starts))
          IN <<m>> \o HeadingMatches(s, m.end)

Section(title, content) == [title |-> title, content |-> content]

\* the for loop over the matches and the remainder after the last one
RECURSIVE SectionLoop(_, _, _, _, _)
SectionLoop(content, ms, last_end, last_title, sections) ==
  IF Len(ms) = 0
    THEN LET remaining == Strip(From(content, last_end))
         IN IF last_end < Len(content) /\ remaining # ""
              THEN Append(sections, Section(last_title, remaining))
              ELSE sections
    ELSE LET m == Head(ms)
             section_content == Strip(Slice(content, last_end, m.start))
         IN SectionLoop(content, Tail(ms), m.start, Strip(m.title),
                        IF m.start > last_end /\ section_content # ""
                          THEN Append(sections, Section(last_title, section_content))
                          ELSE sections)

\* (mutant) the text before the first heading gives no section.
SplitByHeadingsNoPreamble(content) ==
  LET ms == HeadingMatches(content, 0)
      sections == IF Len(ms) = 0 THEN <<>>
                  ELSE SectionLoop(content, Tail(ms), ms[1].start, Strip(ms[1].title), <<>>)
  IN IF Len(sections) = 0 THEN <<Section("", content)>> ELSE sections

SplitByHeadings(content) ==
  LET sections == SectionLoop(content, HeadingMatches(content, 0), 0, "", <<>>)
  IN IF Len(sections) = 0 THEN <<Section("", content)>> ELSE sections

\* ---------------------------------------------------------------- _find_protected_blocks
\* The code fence "```". A string of this module cannot hold a backquote: the
\* model writes that character as ^, which no pattern of the chunker reads.
Fence == "^^^"

\* Line indices are 0-based as in the code; lines[i + 1] is the code's lines[i].
Block(start, end, type) == [start |-> start, end |-> end, type |-> type]

\* while i < len(lines) and not lines[i].strip().startswith("```"): i += 1
RECURSIVE FenceEnd(_, _)
FenceEnd(lines, i) ==
  IF i < Len(lines) /\ ~StartsWith(Strip(lines[i + 1]), Fence)
    THEN FenceEnd(lines, i + 1)
    ELSE i

\* while i < len(lines) and lines[i].strip().startswith("|"): i += 1
RECURSIVE TableEnd(_, _)
TableEnd(lines, i) ==
  IF i < Len(lines) /\ StartsWith(Strip(lines[i + 1]), "|")
    THEN TableEnd(lines, i + 1)
    ELSE i

RECURSIVE BlockLoop(_, _, _)
BlockLoop(lines, i, blocks) ==
  IF i >= Len(lines) THEN blocks
  ELSE LET line == Strip(lines[i + 1])
       IN IF StartsWith(line, Fence)
            THEN LET e == FenceEnd(lines, i + 1)
                 IN BlockLoop(lines, e + 1, Append(blocks, Block(i, e, "code")))
          ELSE IF StartsWith(line, "|") /\ EndsWith(line, "|")
            THEN LET e == TableEnd(lines, i)
                 IN BlockLoop(lines, e, Append(blocks, Block(i, e - 1, "table")))
          ELSE BlockLoop(lines, i + 1, blocks)

FindProtectedBlocks(content) == BlockLoop(Split(content), 0, <<>>)

\* ---------------------------------------------------------------- _create_chunk
\* _extract_heading_path: the text of every line that starts with "#"
RECURSIVE HeadingTexts(_)
HeadingTexts(lines) ==
  IF Len(lines) = 0 THEN <<>>
  ELSE (IF StartsWith(Head(lines), "#") THEN <<Strip(LStripHash(Head(lines)))>> ELSE <<>>)
       \o HeadingTexts(Tail(lines))

ExtractHeadingPath(content) == HeadingTexts(Split(content))

CreateChunk(content, index, start_char, end_char, section_title) ==
  [content |-> content, index |-> index,
   start_char |-> start_char, end_char |-> end_char,
   metadata |-> [section_title |-> section_title,
                 heading_path |-> ExtractHeadingPath(content),
                 has_table |-> Contains(content, "|") /\ Contains(content, "---"),
                 has_image |-> Contains(content, "![") \/ Contains(content, "[Image:")]]

\* ---------------------------------------------------------------- _chunk_section
\* sum(len(l) + 1 for l in lines[:i])
RECURSIVE LinesLength(_, _)
LinesLength(lines, i) ==
  IF i = 0 THEN 0 ELSE LinesLength(lines, i - 1) + Len(lines[i]) + 1

\* (mutant) the buffer is cut only when it is two characters over the size.
OverflowsLate(current_chunk, piece, chunk_size) ==
  Len(current_chunk) + Len(piece) > chunk_size + 2 /\ current_chunk # ""

\* if len(current_chunk) + len(piece) > self.config.chunk_size and current_chunk
\* (piece is the protected block at line 149, the line at line 164)
Overflows(current_chunk, piece, chunk_size) ==
  Len(current_chunk) + Len(piece) > chunk_size /\ current_chunk # ""

\* The while loop over the lines of one section and the flush after it.
\* a holds what the loop does not change: chunk_size, section_title,
\* start_index, char_offset.
RECURSIVE ChunkLoop(_, _, _, _, _, _, _)
ChunkLoop(lines, blocks, i, current_chunk, current_start, out, a) ==
  IF i >= Len(lines)
    THEN IF Strip(current_chunk) # ""
           THEN Append(out, CreateChunk(Strip(current_chunk), a.start_index + Len(out),
                                        current_start, current_start + Len(current_chunk),
                                        a.section_title))
           ELSE out
    ELSE LET starting == {b \in 1..Len(blocks) : blocks[b].start = i}
             block_end == blocks[Min(starting)].end
             piece == IF starting # {}
                        THEN Join(SubSeq(lines, i + 1,
                                         IF block_end + 1 > Len(lines) THEN Len(lines)
                                                                       ELSE block_end + 1))
                        ELSE lines[i + 1]
             flush == Overflows(current_chunk, piece, a.chunk_size)
         IN ChunkLoop(lines, blocks,
                      IF starting # {} THEN block_end + 1 ELSE i + 1,
                      (IF flush THEN "" ELSE current_chunk) \o piece \o "\n",
                      IF flush THEN a.char_offset + LinesLength(lines, i) ELSE current_start,
                      IF flush
                        THEN Append(out, CreateChunk(Strip(current_chunk),
                                                     a.start_index + Len(out), current_start,
                                                     current_start + Len(current_chunk),
                                                     a.section_title))
                        ELSE out,
                      a)

ChunkSection(content, section_title, start_index, char_offset, chunk_size) ==
  ChunkLoop(Split(content), FindProtectedBlocks(content), 0, "", char_offset, <<>>,
            [chunk_size |-> chunk_size, section_title |-> section_title,
             start_index |-> start_index, char_offset |-> char_offset])

\* ---------------------------------------------------------------- chunk
\* (mutant) every section numbers its chunks from 0.
NextIndexRestart(chunk_index, section_chunks) == 0

\* chunk_index += len(section_chunks)
NextIndex(chunk_index, section_chunks) == chunk_index + Len(section_chunks)

\* for section_title, section_content in sections: ...
RECURSIVE SectionsLoop(_, _, _, _, _)
SectionsLoop(sections, chunk_index, char_offset, out, chunk_size) ==
  IF Len(sections) = 0 THEN out
  ELSE LET sec == Head(sections)
           section_chunks == ChunkSection(sec.content, sec.title, chunk_index,
                                          char_offset, chunk_size)
       IN SectionsLoop(Tail(sections), NextIndex(chunk_index, section_chunks),
                       char_offset + Len(sec.content), out \o section_chunks, chunk_size)

\* sections = _split_by_headings(content) or the whole content as one section
SectionsOf(content, cfg) ==
  IF cfg.respect_headings THEN SplitByHeadings(content) ELSE <<Section("", content)>>

\* chunk, lines 41-61: the chunks before the overlap and marker passes
SectionChunks(md, cfg) ==
  SectionsLoop(SectionsOf(ExtractFrontmatter(md).content, cfg), 0, 0, <<>>, cfg.chunk_size)

\* ---------------------------------------------------------------- _add_overlap
\* for break_char in ["\n\n", ". ", "\n"]: cut after the first one found past
\* position 0
TrimOverlap(overlap_text) ==
  LET para == Find(overlap_text, "\n\n", 0)
      sent == Find(overlap_text, ". ", 0)
      line == Find(overlap_text, "\n", 0)
  IN IF para > 0 THEN From(overlap_text, para + 2)
     ELSE IF sent > 0 THEN From(overlap_text, sent + 2)
     ELSE IF line > 0 THEN From(overlap_text, line + 1)
     ELSE overlap_text

\* for i in range(1, len(chunks)): the chunks are changed in place, so the
\* overlap of chunk i is cut from chunk i-1 as the loop left it. cs[i] is the
\* code's chunks[i - 1].
RECURSIVE OverlapLoop(_, _, _)
OverlapLoop(cs, i, overlap_size) ==
  IF i > Len(cs) THEN cs
  ELSE LET overlap_text == TrimOverlap(Last(cs[i - 1].content, overlap_size))
       IN OverlapLoop(IF Strip(overlap_text) # ""
                        THEN [cs EXCEPT ![i].content =
                                "[...] " \o Strip(overlap_text) \o "\n\n" \o @]
                        ELSE cs,
                      i + 1, overlap_size)

\* (mutant) the overlap pass also moves start_char back over the overlap.
AddOverlapShift(cs, overlap_size) ==
  [i \in 1..Len(cs) |->
     IF i = 1 THEN cs[i]
     ELSE [cs[i] EXCEPT !.content = "[...] " \o Last(cs[i - 1].content, overlap_size) \o "\n\n" \o @,
                        !.start_char = @ - overlap_size]]

AddOverlap(cs, overlap_size) ==
  IF Len(cs) <= 1 THEN cs ELSE OverlapLoop(cs, 2, overlap_size)

\* ---------------------------------------------------------------- markers
\* f"\n\n<!-- chunk_boundary: {i} -->"
Marker(i) == "\n\n<!-- chunk_boundary: " \o Str(i) \o " -->"

\* for i, chunk in enumerate(chunks): chunk.content = f"{chunk.content}..."
AddMarkers(cs) == [i \in 1..Len(cs) |-> [cs[i] EXCEPT !.content = @ \o Marker(i - 1)]]

\* ---------------------------------------------------------------- chunk, step by step
\* Lines 41-61: frontmatter, sections, the chunks of every section.
ChunkSections ==
  /\ cpc = "input"
  /\ chunks' = SectionChunks(markdown, ragConfig)
  /\ cpc' = "chunked"
  /\ UNCHANGED <<batch, markdown, ragConfig>>

\* Lines 64-65: if chunk_overlap > 0: chunks = _add_overlap(chunks, content)
OverlapPass ==
  /\ cpc = "chunked"
  /\ chunks' = IF ragConfig.chunk_overlap > 0
                 THEN AddOverlap(chunks, ragConfig.chunk_overlap)
                 ELSE chunks
  /\ cpc' = "overlapped"
  /\ UNCHANGED <<batch, markdown, ragConfig>>

\* Lines 68-72: if add_chunk_markers: the marker loop; return chunks
MarkerPass ==
  /\ cpc = "overlapped"
  /\ chunks' = IF ragConfig.add_chunk_markers THEN AddMarkers(chunks) ELSE chunks
  /\ cpc' = "returned"
  /\ UNCHANGED <<batch, markdown, ragConfig>>

\* ---------------------------------------------------------------- chunker inputs
MaxLines == 3

\* The lines texts are made of: blank, short and long text, headings with and
\* without a title, a code fence, table rows, a rule, two sentences.
Vocabulary ==
  {"", "ab", "abcdefgh", "# A", "#", "# ", Fence, "|a|", "|---|", "---", "a. b"}

Texts(n) == {Join(ls) : ls \in UNION {[1..k -> Vocabulary] : k \in 0..n}}

\* chunk_size, chunk_overlap (validated to be below chunk_size), the two flags
Configs ==
  [chunk_size : {6, 20}, chunk_overlap : {0, 3},
   respect_headings : BOOLEAN, add_chunk_markers : BOOLEAN]

\* Longer texts: two titled sections of one chunk each, and a text whose
\* middle chunk is shorter than the overlap.
Examples == {"# A\n\nshort\n\n# B\n\nshort2", "abcdefgh\n#\n#\nabcdefgh"}

ExampleConfigs ==
  [chunk_size : {6, 100}, chunk_overlap : {0, 5},
   respect_headings : BOOLEAN, add_chunk_markers : BOOLEAN]

\* The (text, config) pairs a chunk call is given.
Inputs == (Texts(MaxLines) \X Configs) \cup (Examples \X ExampleConfigs)

\* ---------------------------------------------------------------- chunker specification
\* One chunk call on any text and config; no batch is running.
ChunkInit ==
  /\ failFast = FALSE
  /\ maxWorkers = MaxWorkers
  /\ jobs = {}
  /\ obj = <<>>
  /\ files = <<>>
  /\ task = <<>>
  /\ item = <<>>
  /\ timedout = <<>>
  /\ held = NotHeld
  /\ gr = Idle
  /\ ret = NoCall
  /\ lock = "free"
  /\ \E in \in Inputs : markdown = in[1] /\ ragConfig = in[2]
  /\ chunks = <<>>
  /\ cpc = "input"

ChunkNext ==
  \/ ChunkSections
  \/ OverlapPass
  \/ MarkerPass

ChunkSpec == ChunkInit /\ [][ChunkNext]_vars

\* The chunk call has built its chunks (before or after the two passes).
Chunked == cpc \in {"chunked", "overlapped", "returned"}

\* ---------------------------------------------------------------- C17
\* The content is one protected block from its first line to its last.
OneBlock(content) ==
  LET blocks == FindProtectedBlocks(content)
  IN /\ Len(blocks) = 1
     /\ blocks[1].start = 0
     /\ blocks[1].end >= Len(Split(content)) - 1

\* The content is one line.
OneLine(content) == ~Contains(content, "\n")

\* C17 (as stated): before the overlap and marker passes every chunk's content
\* is at most chunk_size long, unless the chunk is wholly one protected block.
C17_SizeLimit ==
  cpc = "chunked" =>
    \A k \in 1..Len(chunks) :
      \/ Len(chunks[k].content) <= ragConfig.chunk_size
      \/ OneBlock(chunks[k].content)

\* C17 (amended): before the overlap and marker passes every chunk's content
\* is at most chunk_size long, unless the chunk is wholly one protected block
\* or wholly one line.
C17_SizeLimitButAtoms ==
  cpc = "chunked" =>
    \A k \in 1..Len(chunks) :
      \/ Len(chunks[k].content) <= ragConfig.chunk_size
      \/ OneBlock(chunks[k].content)
      \/ OneLine(chunks[k].content)

\* A chunk within the size limit, followed by a protected block of several
\* lines over the limit that makes a chunk of its own.
C17_Witness ==
  /\ cpc = "chunked"
  /\ Len(chunks) >= 2
  /\ Len(chunks[1].content) \in 1..ragConfig.chunk_size
  /\ Len(chunks[2].content) > ragConfig.chunk_size
  /\ OneBlock(chunks[2].content)
  /\ ~OneLine(chunks[2].content)

\* ---------------------------------------------------------------- C18
\* The text of the protected block b of content, as a chunk would hold it.
BlockText(content, b) ==
  LET lines == Split(content)
  IN Strip(Join(SubSeq(lines, b.start + 1,
                       IF b.end + 1 > Len(lines) THEN Len(lines) ELSE b.end + 1)))

\* The protected blocks of the text chunk works on (the frontmatter removed).
InputBlocks ==
  LET content == ExtractFrontmatter(markdown).content
      blocks == FindProtectedBlocks(content)
  IN {BlockText(content, blocks[b]) : b \in 1..Len(blocks)}

\* C18: whatever the configuration, every fenced code block and every table
\* block of the input lies, all its lines together, in one chunk.
C18_BlocksAtomic ==
  cpc = "chunked" =>
    \A text \in InputBlocks : \E k \in 1..Len(chunks) : Contains(chunks[k].content, text)

\* ---------------------------------------------------------------- C19
\* C19: the chunk at list position k (counted from 0) has index k, and the
\* marker appended to it carries that index.
C19_IndexIsPosition ==
  /\ Chunked => \A k \in 1..Len(chunks) : chunks[k].index = k - 1
  /\ (cpc = "returned" /\ ragConfig.add_chunk_markers) =>
       \A k \in 1..Len(chunks) :
         EndsWith(chunks[k].content, "\n\n<!-- chunk_boundary: " \o Str(k - 1) \o " -->")

\* Three marked chunks from two sections are returned.
C19_Witness ==
  /\ cpc = "returned"
  /\ ragConfig.add_chunk_markers
  /\ Len(chunks) = 3
  /\ chunks[1].metadata.section_title # chunks[3].metadata.section_title
  /\ chunks[2].metadata.section_title = chunks[3].metadata.section_title

\* ---------------------------------------------------------------- C20
\* What the overlap and marker passes must leave alone.
Boundary(c) ==
  [index |-> c.index, start_char |-> c.start_char, end_char |-> c.end_char,
   metadata |-> c.metadata]

Boundaries(cs) == [k \in 1..Len(cs) |-> Boundary(cs[k])]

\* C20: the overlap and marker passes change no chunk's index, start_char,
\* end_char or metadata and not the number of chunks, so the boundaries
\* returned are those of the same text chunked with chunk_overlap = 0 and
\* add_chunk_markers off.
C20_BoundariesKept ==
  /\ [][(OverlapPass \/ MarkerPass) => Boundaries(chunks') = Boundaries(chunks)]_vars
  /\ [](cpc = "returned" =>
          Boundaries(chunks) =
            Boundaries(SectionChunks(markdown, [ragConfig EXCEPT !.chunk_overlap = 0,
                                                                 !.add_chunk_markers = FALSE])))

\* Chunks are returned with an overlap prefix and a marker.
C20_Witness ==
  /\ cpc = "returned"
  /\ ragConfig.chunk_overlap > 0
  /\ ragConfig.add_chunk_markers
  /\ Len(chunks) >= 2
  /\ StartsWith(chunks[2].content, "[...] ")
  /\ chunks[2].start_char > 0

\* ---------------------------------------------------------------- C21
\* The chunks of the call before the overlap and marker passes.
Own == SectionChunks(markdown, ragConfig)

\* C21: the returned content of chunk k is its own text, preceded when
\* chunk_overlap > 0 and k is not the first chunk by "[...] ", the trimmed
\* tail of the previous chunk's text and a blank line, and followed when
\* add_chunk_markers is set by the marker of k; nothing else is added.
C21_OverlapThenMarker ==
  cpc = "returned" =>
    \A k \in 1..Len(chunks) :
      LET prefix == IF ragConfig.chunk_overlap > 0 /\ k > 1
                      THEN "[...] "
                           \o Strip(TrimOverlap(Last(Own[k - 1].content, ragConfig.chunk_overlap)))
                           \o "\n\n"
                      ELSE ""
          suffix == IF ragConfig.add_chunk_markers THEN Marker(k - 1) ELSE ""
      IN chunks[k].content = prefix \o Own[k].content \o suffix

\* ---------------------------------------------------------------- C22
\* The text opens with a line that is exactly "---" and a later line that is
\* exactly "---" closes it.
HasFrontmatter(md) ==
  LET lines == Split(md)
  IN lines[1] = "---" /\ \E j \in 2..Len(lines) : lines[j] = "---"

\* The text after the closing line of the frontmatter.
AfterFrontmatter(md) ==
  LET lines == Split(md)
      closing == Min({j \in 2..Len(lines) : lines[j] = "---"})
  IN Join(SubSeq(lines, closing + 1, Len(lines)))

\* The chunks of a text that has no frontmatter to remove.
ChunksOf(content, cfg) ==
  SectionsLoop(SectionsOf(content, cfg), 0, 0, <<>>, cfg.chunk_size)

\* C22: the chunks are those of the text after the frontmatter when the text
\* opens with a "---" line that a later "---" line closes, and those of the
\* whole text in every other case.
C22_FrontmatterExact ==
  cpc = "chunked" =>
    chunks = ChunksOf(IF HasFrontmatter(markdown)
                        THEN Strip(AfterFrontmatter(markdown))
                        ELSE markdown,
                      ragConfig)

\* ---------------------------------------------------------------- C23
\* A heading line: 1-6 "#" characters followed by a space.
IsHeadingLine(l) ==
  LET h == HashRun(l, 0) IN h \in 1..6 /\ Len(l) > h /\ Ch(l, h + 1) = " "

\* The text of a heading line.
HeadingTitle(l) == Strip(From(l, HashRun(l, 0)))

\* The section made of the lines acc under title, unless it is blank.
CloseSection(out, title, acc) ==
  IF Strip(Join(acc)) = "" THEN out ELSE Append(out, Section(title, Strip(Join(acc))))

\* The sections of a text read line by line: every heading line opens a
\* section titled by its text, the lines before the first heading are untitled.
RECURSIVE LineSections(_, _, _, _)
LineSections(lines, title, acc, out) ==
  IF Len(lines) = 0 THEN CloseSection(out, title, acc)
  ELSE IF IsHeadingLine(Head(lines))
    THEN LineSections(Tail(lines), HeadingTitle(Head(lines)), <<Head(lines)>>,
                      CloseSection(out, title, acc))
    ELSE LineSections(Tail(lines), title, Append(acc, Head(lines)), out)

\* The chunks the text gives when its sections are those of its heading lines.
ChunksByHeadingLines ==
  SectionsLoop(LineSections(Split(ExtractFrontmatter(markdown).content), "", <<>>, <<>>),
               0, 0, <<>>, ragConfig.chunk_size)

\* C23: with respect_headings every chunk carries the text of the heading
\* line that opens its section ("" before the first heading), in document
\* order; "# A\n\nshort\n\n# B\n\nshort2" with chunk_size 100 gives two chunks
\* titled A and B with indices 0 and 1; without respect_headings every
\* section_title is empty.
C23_SectionTitles ==
  cpc = "chunked" =>
    /\ ragConfig.respect_headings =>
         /\ Len(chunks) = Len(ChunksByHeadingLines)
         /\ \A k \in 1..Len(chunks) :
              /\ chunks[k].content = ChunksByHeadingLines[k].content
              /\ chunks[k].metadata.section_title =
                   ChunksByHeadingLines[k].metadata.section_title
    /\ ~ragConfig.respect_headings =>
         \A k \in 1..Len(chunks) : chunks[k].metadata.section_title = ""
    /\ (/\ markdown = "# A\n\nshort\n\n# B\n\nshort2"
        /\ ragConfig.respect_headings
        /\ ragConfig.chunk_size = 100) =>
         /\ Len(chunks) = 2
         /\ chunks[1].metadata.section_title = "A" /\ chunks[1].index = 0
         /\ chunks[2].metadata.section_title = "B" /\ chunks[2].index = 1

\* ---------------------------------------------------------------- C24
\* C24: a chunk that opens with a heading line without title text (1-6 "#",
\* a space, nothing else) has the empty section title, not the text of the
\* line that follows.
C24_EmptyTitle ==
  (cpc = "chunked" /\ ragConfig.respect_headings) =>
    \A k \in 1..Len(chunks) :
      LET first == Split(chunks[k].content)[1]
      IN (IsHeadingLine(first) /\ HeadingTitle(first) = "") =>
           chunks[k].metadata.section_title = ""

\* ---------------------------------------------------------------- C25
\* The sections of the call.
Sections == SectionsOf(ExtractFrontmatter(markdown).content, ragConfig)

\* The number of chunks section j gives.
ChunkCount(j) ==
  Len(ChunkSection(Sections[j].content, Sections[j].title, 0, 0, ragConfig.chunk_size))

\* The number of chunks the sections before section j give.
RECURSIVE ChunksBefore(_)
ChunksBefore(j) == IF j = 1 THEN 0 ELSE ChunksBefore(j - 1) + ChunkCount(j - 1)

\* C25: start_char and end_char of a chunk are offsets into the text of its
\* own section: they lie within it in this order, the first chunk of a
\* section starts at 0, and the section text between them is the chunk's
\* content up to surrounding whitespace.
C25_SectionOffsets ==
  cpc = "chunked" =>
    \A j \in 1..Len(Sections) : \A n \in 1..ChunkCount(j) :
      LET c == chunks[ChunksBefore(j) + n]
          text == Sections[j].content
      IN /\ 0 <= c.start_char
         /\ c.start_char <= c.end_char
         /\ c.end_char <= Len(text)
         /\ n = 1 => c.start_char = 0
         /\ Strip(Slice(text, c.start_char, c.end_char)) = c.content

\* ---------------------------------------------------------------- C26
\* A Processing Function call of some job is executing in a pool thread.
Processing == \E j \in DOMAIN item : Running(j) # {}

\* A caller of get_result(wait=True) is between two polls.
Waiting == gr.state = "polling"

Counted(j) == obj[j].processed_files + obj[j].failed_files

\* C27: in every state (the job lock is free in all of them) processed_files
\* is the number of results, processed_files + failed_files is at most
\* total_files and at most the number of files awaited so far; no step lowers
\* a counter, and a step raises only one of them, by one, for the file the
\* coordinator is awaiting and then leaves behind.
C27_CountersConsistent ==
  /\ [](\A j \in DOMAIN obj :
          /\ lock = "free"
          /\ obj[j].processed_files = Len(obj[j].results)
          /\ Counted(j) <= obj[j].total_files
          /\ Counted(j) <= task[j].idx)
  /\ [][\A j \in DOMAIN obj :
          /\ obj'[j].processed_files >= obj[j].processed_files
          /\ obj'[j].failed_files >= obj[j].failed_files
          /\ Counted(j)' <= Counted(j) + 1
          /\ Counted(j)' = Counted(j) + 1 =>
                /\ task[j].pc = "await"
                /\ \/ task'[j].idx = task[j].idx + 1
                   \/ task'[j].pc = "raised"]_vars

\* A job with one processed file and two failed ones.
C27_Witness ==
  \E j \in DOMAIN obj :
    /\ obj[j].processed_files = 1
    /\ obj[j].failed_files = 2

\* ---------------------------------------------------------------- C28
\* C28: every job whose status is COMPLETED or FAILED has completed_at set.
C28_TerminalHasCompletedAt ==
  \A j \in DOMAIN obj : Terminal(obj[j]) => obj[j].completed_at

\* ---------------------------------------------------------------- C29
\* C29: no chunk that _chunk_section emits has an empty or whitespace-only
\* content (the content before the overlap prefix and the markers are added).
C29_NoEmptyChunk ==
  cpc = "chunked" => \A k \in 1..Len(chunks) : Strip(chunks[k].content) # ""

\* ---------------------------------------------------------------- C30
\* The lines of a text without their surrounding whitespace, blank lines left
\* out.
RECURSIVE TextLines(_)
TextLines(ls) ==
  IF Len(ls) = 0 THEN <<>>
  ELSE (IF Strip(Head(ls)) = "" THEN <<>> ELSE <<Strip(Head(ls))>>) \o TextLines(Tail(ls))

\* The lines of the contents of the chunks from the k-th on, in index order.
RECURSIVE ChunkLines(_)
ChunkLines(k) ==
  IF k > Len(chunks) THEN <<>>
  ELSE TextLines(Split(chunks[k].content)) \o ChunkLines(k + 1)

\* C30: with chunk_overlap = 0 and the markers off, the contents of the
\* returned chunks, read in index order, hold every line of the input after
\* its frontmatter once and in the original order, up to blank lines and the
\* whitespace around a line.
C30_NothingLostOrDuplicated ==
  (cpc = "returned" /\ ragConfig.chunk_overlap = 0 /\ ~ragConfig.add_chunk_markers) =>
    ChunkLines(1) = TextLines(Split(ExtractFrontmatter(markdown).content))

\* A heading, a fence and a table row went into two or more chunks.
C30_Witness ==
  /\ cpc = "returned" /\ ragConfig.chunk_overlap = 0 /\ ~ragConfig.add_chunk_markers
  /\ Len(chunks) >= 2
  /\ Split(markdown) = <<"# A", Fence, "|a|">>

====
